---- MODULE Spec2Model ----
(***************************************************************************)
(* A model of the genealogy_memory tool server (src/server.py): the        *)
(* relational tables the tools write, one action per tool call, and the    *)
(* step-by-step body of fetch_attachments_for_person.                      *)
(*                                                                         *)
(* Conventions.  A nullable column holds Null (the empty tuple) or         *)
(* Some(v) (the one-element tuple <<v>>).  Python's `x or None` is the     *)
(* operator OrNone.  Text that the code searches or concatenates (names,   *)
(* research notes) is a sequence of pieces of text; other text is an       *)
(* opaque string.  uuid.uuid4() is the next value of a counter.            *)
(***************************************************************************)
EXTENDS Integers, Sequences, FiniteSets, TLC

VARIABLES
    persons,        \* table persons, in insertion order
    events,         \* table events, in insertion order
    relationships,  \* table relationships, in insertion order
    attachments,    \* table attachments, in insertion order
    crawl_log,      \* table crawl_log, in insertion order
    next_id,        \* the identifier generator's position
    open_conns,     \* connections opened by a call and not closed yet
    fetch,          \* the fetch_attachments_for_person call in progress
    lc,             \* the log_crawl calls in progress, per worker
    clock,          \* the database server's clock
    last            \* the most recent call and what it returned

vars == <<persons, events, relationships, attachments, crawl_log, next_id, open_conns,
          fetch, lc, clock, last>>

-----------------------------------------------------------------------------
(* Bounds of the model *)

MaxAtt == 3
MaxPersons == 3
MaxNoted == 2
Beyond == 2
MaxRel == 3
MaxClock == 3
MaxNoteLen == 4
MaxEvents == 3

-----------------------------------------------------------------------------
(* Values *)

Null == <<>>
Some(v) == <<v>>

\* Python `x or None` for a str argument ("" is falsy)
OrNone(x) == IF x = "" THEN Null ELSE Some(x)

\* Python `x or None` for a str argument held as a sequence of characters
OrNoneText(x) == IF x = <<>> THEN Null ELSE Some(x)

\* Python `x or None` for an int argument (0 is falsy)
OrNoneInt(n) == IF n = 0 THEN Null ELSE Some(n)

\* ok(data)
ok(data) == [status |-> "ok", data |-> data]

\* err(code, details)
err(code, details) == [status |-> "error", error |-> code, details |-> details]

\* an exception that leaves the tool function at the named statement: the
\* call returns no envelope
Raised(what, at) == [status |-> "raised", error |-> what, at |-> at]

\* a call that has not returned yet
Running == [status |-> "running"]

NoDetails == <<>>

\* what a completed call leaves behind: its envelope, whether it opened a
\* connection, and how many statements it executed
Call(op, args, ret, conn, stmts) ==
    [op |-> op, args |-> args, ret |-> ret, conn |-> conn, stmts |-> stmts]

\* str(uuid.uuid4()): an identifier no earlier call has been given
Uuid4(n) == n

\* column defaults of the schema for the flags the INSERTs leave out
DefaultFlag == FALSE

PersonIds == {"p1", "p2"}

\* the argument lists add_attachment_metadata is called with
MetadataArgs ==
    {<<"p1", "http://a", TRUE>>, <<"p1", "http://b", TRUE>>,
     <<"p1", "http://a", FALSE>>, <<"p2", "http://a", TRUE>>,
     <<"p1", "", TRUE>>}

-----------------------------------------------------------------------------
(* The state after start-up: empty tables, no call in progress *)

\* no fetch_attachments_for_person call in progress
Idle == [pc |-> "idle", person_id |-> "", todo |-> {}, results |-> <<>>,
         trace |-> <<>>, pending |-> {}, aborted |-> FALSE, stmts |-> 0]

Init ==
    /\ persons = <<>>
    /\ events = <<>>
    /\ relationships = <<>>
    /\ attachments = <<>>
    /\ crawl_log = <<>>
    /\ next_id = 1
    /\ open_conns = 0
    /\ fetch = Idle
    /\ lc = [w \in {1, 2} |-> Null]
    /\ clock = 0
    /\ last = Call("none", <<>>, ok(<<>>), FALSE, 0)

-----------------------------------------------------------------------------
(* Attachments *)

\* the attachment tools are called one after the other: a call starts when
\* the one before has returned, or has raised and its exception is dropped
NoCallInProgress == fetch.pc = "idle" /\ open_conns = 0

\* add_attachment: validation, then one INSERT that names neither
\* download_url nor the two flags
AddAttachment(person_id, file_name, file_path) ==
    /\ NoCallInProgress
    /\ IF file_name = "" /\ file_path = ""
       THEN /\ last' = Call("add_attachment", <<person_id, file_name, file_path>>,
                            err("missing_file_info", NoDetails), FALSE, 0)
            /\ UNCHANGED <<attachments, next_id>>
       ELSE /\ Len(attachments) < MaxAtt
            /\ LET att_id == Uuid4(next_id) IN
               /\ attachments' = Append(attachments,
                     [attachment_id |-> att_id,
                      person_id |-> OrNone(person_id),
                      file_name |-> OrNone(file_name),
                      file_type |-> Null,
                      file_path |-> OrNone(file_path),
                      download_url |-> Null,
                      should_fetch |-> DefaultFlag,
                      fetched |-> DefaultFlag])
               /\ last' = Call("add_attachment", <<person_id, file_name, file_path>>,
                               ok([attachment_id |-> att_id]), TRUE, 1)
            /\ next_id' = next_id + 1
    /\ UNCHANGED <<events, persons, relationships, crawl_log, open_conns,  fetch, lc, clock>>

\* add_attachment_metadata: validation, then one INSERT with the URL and
\* the should_fetch flag
AddAttachmentMetadata(person_id, download_url, should_fetch) ==
    /\ NoCallInProgress
    /\ IF download_url = ""
       THEN /\ last' = Call("add_attachment_metadata",
                            <<person_id, download_url, should_fetch>>,
                            err("missing_download_url", NoDetails), FALSE, 0)
            /\ UNCHANGED <<attachments, next_id>>
       ELSE /\ Len(attachments) < MaxAtt
            /\ LET att_id == Uuid4(next_id) IN
               /\ attachments' = Append(attachments,
                     [attachment_id |-> att_id,
                      person_id |-> OrNone(person_id),
                      file_name |-> Null,
                      file_type |-> Null,
                      file_path |-> Null,
                      download_url |-> Some(download_url),
                      should_fetch |-> should_fetch,
                      fetched |-> DefaultFlag])
               /\ last' = Call("add_attachment_metadata",
                               <<person_id, download_url, should_fetch>>,
                               ok([attachment_id |-> att_id]), TRUE, 1)
            /\ next_id' = next_id + 1
    /\ UNCHANGED <<events, persons, relationships, crawl_log, open_conns,  fetch, lc, clock>>

\* the WHERE clause of the fetcher's SELECT
EligibleAnyFlag(a, person_id) ==
    /\ a.person_id = Some(person_id)
    /\ ~a.fetched
    /\ a.download_url # Null
Eligible(a, person_id) ==
    /\ a.person_id = Some(person_id)
    /\ a.should_fetch
    /\ ~a.fetched
    /\ a.download_url # Null

EligibleRows(person_id) ==
    {[attachment_id |-> attachments[i].attachment_id,
      download_url |-> attachments[i].download_url[1]] :
        i \in {j \in DOMAIN attachments : Eligible(attachments[j], person_id)}}

\* what requests.get(url, timeout=20) can do: raise, or return a response
Responses ==
    {[raised |-> TRUE, status |-> 0]} \cup
    {[raised |-> FALSE, status |-> s] : s \in {200, 404}}

\* the request returned and `resp.status_code != 200` is false
Downloaded(resp) == ~resp.raised /\ resp.status = 200

\* base_path / f"{att_id}.bin"
FilePath(att_id) == <<"/attachments", att_id, ".bin">>

\* the SET clause of the fetcher's UPDATE
MarkFetched(a) ==
    [a EXCEPT !.file_path = Some(FilePath(a.attachment_id)),
              !.file_type = Some("binary"),
              !.fetched = TRUE]

\* the rows of the table once the pending UPDATEs of a transaction commit
Committed(pending) ==
    [i \in DOMAIN attachments |->
        IF attachments[i].attachment_id \in pending
        THEN MarkFetched(attachments[i])
        ELSE attachments[i]]

\* leaving `with db_conn() as conn` on a return: psycopg2's connection
\* context manager ends the transaction and leaves the connection open; the
\* frame's last reference to it goes with the return, which closes it
ClosedOnReturn(n) == n - 1

\* leaving it on an exception: the traceback keeps the frame, and with it
\* the connection, until the caller drops the exception
OpenAfterRaise(n) == n

FetchOp == "fetch_attachments_for_person"

\* lines 651-652: validation
FetchCall(person_id) ==
    /\ NoCallInProgress
    /\ IF person_id = ""
       THEN /\ last' = Call(FetchOp, <<person_id>>,
                            err("missing_person_id", NoDetails), FALSE, 0)
            /\ UNCHANGED fetch
       ELSE /\ fetch' = [Idle EXCEPT !.pc = "mkdir", !.person_id = person_id]
            /\ last' = Call(FetchOp, <<person_id>>, Running, FALSE, 0)
    /\ UNCHANGED <<events, persons, relationships, attachments, crawl_log, next_id,
                   open_conns, lc, clock>>

\* lines 653-654: base_path.mkdir(exist_ok=True), outside every try
FetchMkdir(succeeds) ==
    /\ fetch.pc = "mkdir"
    /\ IF succeeds
       THEN /\ fetch' = [fetch EXCEPT !.pc = "connect"]
            /\ UNCHANGED last
       ELSE /\ fetch' = Idle
            /\ last' = Call(FetchOp, <<fetch.person_id>>, Raised("OSError", "mkdir"), FALSE, 0)
    /\ UNCHANGED <<events, persons, relationships, attachments, crawl_log, next_id,
                   open_conns, lc, clock>>

\* line 656: db_conn()
FetchConnect(succeeds) ==
    /\ fetch.pc = "connect"
    /\ IF succeeds
       THEN /\ open_conns' = open_conns + 1
            /\ fetch' = [fetch EXCEPT !.pc = "select"]
            /\ UNCHANGED last
       ELSE /\ fetch' = Idle
            /\ last' = Call(FetchOp, <<fetch.person_id>>,
                            Raised("OperationalError", "connect"), FALSE, 0)
            /\ UNCHANGED open_conns
    /\ UNCHANGED <<events, persons, relationships, attachments, crawl_log, next_id,
                   lc, clock>>

\* lines 657-668: the SELECT, inside the with block and outside the try
FetchSelect(succeeds) ==
    /\ fetch.pc = "select"
    /\ IF succeeds
       THEN /\ fetch' = [fetch EXCEPT !.pc = "loop",
                                      !.todo = EligibleRows(fetch.person_id),
                                      !.stmts = 1]
            /\ UNCHANGED <<last, open_conns>>
       ELSE /\ fetch' = Idle
            /\ last' = Call(FetchOp, <<fetch.person_id>>,
                            Raised("DatabaseError", "select"), TRUE, 1)
            /\ open_conns' = OpenAfterRaise(open_conns)
    /\ UNCHANGED <<events, persons, relationships, attachments, crawl_log, next_id,
                   lc, clock>>

\* lines 672-707: the entry one row adds to results.  saved_path is reached
\* only past the status test, the file write and the UPDATE.
RowEntryNoStatusTest(att_id, resp, wrote, updated) ==
    IF resp.raised
    THEN [attachment_id |-> att_id, error |-> <<"ConnectionError">>]
    ELSE IF ~wrote
    THEN [attachment_id |-> att_id, error |-> <<"OSError">>]
    ELSE IF ~updated
    THEN [attachment_id |-> att_id, error |-> <<"DatabaseError">>]
    ELSE [attachment_id |-> att_id, saved_path |-> FilePath(att_id)]
RowEntry(att_id, resp, wrote, updated) ==
    IF resp.raised
    THEN [attachment_id |-> att_id, error |-> <<"ConnectionError">>]
    ELSE IF resp.status # 200
    THEN [attachment_id |-> att_id, error |-> <<"http_status=", resp.status>>]
    ELSE IF ~wrote
    THEN [attachment_id |-> att_id, error |-> <<"OSError">>]
    ELSE IF ~updated
    THEN [attachment_id |-> att_id, error |-> <<"DatabaseError">>]
    ELSE [attachment_id |-> att_id, saved_path |-> FilePath(att_id)]

\* line 701, `except Exception`: which failures of a row leave the loop
EscapesOnUpdate(resp, wrote, updated) ==
    ~resp.raised /\ resp.status = 200 /\ wrote /\ ~updated
Escapes(resp, wrote, updated) == FALSE

\* lines 669-707: one iteration of the loop.  The SELECT has no ORDER BY, so
\* the next row is any row not yet taken.  An UPDATE that fails aborts the
\* transaction, and every later statement of the transaction fails too.
FetchRow(row, resp, wrote, updated) ==
    /\ fetch.pc = "loop"
    /\ row \in fetch.todo
    /\ fetch.aborted => ~updated
    /\ LET att_id == row.attachment_id
           entry == RowEntry(att_id, resp, wrote, updated)
           saved == "saved_path" \in DOMAIN entry
           executed == Downloaded(resp) /\ wrote
       IN IF Escapes(resp, wrote, updated)
          THEN /\ fetch' = Idle
               /\ last' = Call(FetchOp, <<fetch.person_id>>,
                               Raised("Exception", "row"), TRUE, fetch.stmts)
               /\ open_conns' = OpenAfterRaise(open_conns)
          ELSE /\ fetch' = [fetch EXCEPT
                     !.todo = @ \ {row},
                     !.results = Append(@, entry),
                     !.trace = Append(@, [attachment_id |-> att_id,
                                          download_url |-> row.download_url,
                                          resp |-> resp,
                                          wrote |-> Downloaded(resp) /\ wrote,
                                          updated |-> executed /\ updated]),
                     !.pending = IF saved THEN @ \cup {att_id} ELSE @,
                     !.aborted = @ \/ (executed /\ ~updated),
                     !.stmts = IF executed THEN @ + 1 ELSE @]
               /\ UNCHANGED <<last, open_conns>>
    /\ UNCHANGED <<events, persons, relationships, attachments, crawl_log, next_id,
                   lc, clock>>

\* leaving the with block (line 656) and line 708: the transaction commits,
\* an aborted transaction is rolled back by the COMMIT without an error, and
\* a COMMIT that fails raises out of the call
FetchReturn(commits) ==
    /\ fetch.pc = "loop"
    /\ fetch.todo = {}
    /\ IF commits
       THEN /\ attachments' = IF fetch.aborted THEN attachments
                              ELSE Committed(fetch.pending)
            /\ last' = [Call(FetchOp, <<fetch.person_id>>,
                             ok([person_id |-> fetch.person_id,
                                 results |-> fetch.results]),
                             TRUE, fetch.stmts)
                        EXCEPT !.args = <<fetch.person_id, fetch.trace, fetch.aborted>>]
            /\ open_conns' = ClosedOnReturn(open_conns)
       ELSE /\ UNCHANGED attachments
            /\ last' = Call(FetchOp, <<fetch.person_id>>,
                            Raised("OperationalError", "commit"), TRUE, fetch.stmts)
            /\ open_conns' = OpenAfterRaise(open_conns)
    /\ fetch' = Idle
    /\ UNCHANGED <<events, persons, relationships, crawl_log, next_id,  lc, clock>>

\* the caller drops the exception of a call that raised: the connection it
\* kept alive is reclaimed and closed
Collect ==
    /\ fetch.pc = "idle"
    /\ open_conns > 0
    /\ open_conns' = open_conns - 1
    /\ UNCHANGED <<events, persons, relationships, attachments, crawl_log, next_id,
                   fetch, lc, clock, last>>

-----------------------------------------------------------------------------
(* Persons *)

\* the identifier arguments of the person tools are the identifiers that
\* add_person returned; NoId is the empty string
NoId == 0

\* the argument lists add_person is called with: names are sequences of
\* characters, the other text is opaque, confidence_score is 0.0 or 1.0
PersonArgSeq ==
    <<[given_name |-> <<"A", "n">>, prefix |-> "", surname |-> <<>>, gender |-> "",
       birth_year_estimate |-> 0, death_year_estimate |-> 0, notes |-> "",
       full_name_normalized |-> <<>>, confidence_score |-> 1],
      [given_name |-> <<>>, prefix |-> "van", surname |-> <<"a", "b">>, gender |-> "m",
       birth_year_estimate |-> 1850, death_year_estimate |-> 1900, notes |-> "n",
       full_name_normalized |-> <<"a", "b">>, confidence_score |-> 0],
      [given_name |-> <<"b">>, prefix |-> "", surname |-> <<"A">>, gender |-> "",
       birth_year_estimate |-> 1850, death_year_estimate |-> 0, notes |-> "",
       full_name_normalized |-> <<>>, confidence_score |-> 1]>>

PersonArgs == {PersonArgSeq[i] : i \in DOMAIN PersonArgSeq}

\* a call of add_person without a name
NamelessArgs ==
    {[given_name |-> <<>>, prefix |-> "", surname |-> <<>>, gender |-> "",
      birth_year_estimate |-> 0, death_year_estimate |-> 0, notes |-> "",
      full_name_normalized |-> <<>>, confidence_score |-> 1]}

\* lines 66-87: the row the INSERT of add_person stores; the columns the
\* statement leaves out take the schema's defaults
PersonRowRaw(pid, a) ==
    [person_id |-> pid,
     given_name |-> Some(a.given_name),
     prefix |-> Some(a.prefix),
     surname |-> Some(a.surname),
     gender |-> Some(a.gender),
     birth_year_estimate |-> Some(a.birth_year_estimate),
     death_year_estimate |-> Some(a.death_year_estimate),
     notes |-> Some(a.notes),
     full_name_normalized |-> Some(a.full_name_normalized),
     confidence_score |-> Some(a.confidence_score),
     verified |-> DefaultFlag,
     research_status |-> Null,
     research_notes |-> Null,
     possible_duplicate_of |-> Null]
PersonRow(pid, a) ==
    [person_id |-> pid,
     given_name |-> OrNoneText(a.given_name),
     prefix |-> OrNone(a.prefix),
     surname |-> OrNoneText(a.surname),
     gender |-> OrNone(a.gender),
     birth_year_estimate |-> OrNoneInt(a.birth_year_estimate),
     death_year_estimate |-> OrNoneInt(a.death_year_estimate),
     notes |-> OrNone(a.notes),
     full_name_normalized |-> OrNoneText(a.full_name_normalized),
     confidence_score |-> Some(a.confidence_score),
     verified |-> DefaultFlag,
     research_status |-> Null,
     research_notes |-> Null,
     possible_duplicate_of |-> Null]

\* lines 47-88
AddPerson(a) ==
    /\ IF a.given_name = <<>> /\ a.surname = <<>>
       THEN /\ last' = Call("add_person", a,
                            err("missing_name",
                                [message |-> "At least given_name or surname is required"]),
                            FALSE, 0)
            /\ UNCHANGED <<persons, next_id>>
       ELSE /\ Len(persons) < MaxPersons
            /\ LET pid == Uuid4(next_id) IN
               /\ persons' = Append(persons, PersonRow(pid, a))
               /\ last' = Call("add_person", a, ok([person_id |-> pid]), TRUE, 1)
            /\ next_id' = next_id + 1
    /\ UNCHANGED <<events, relationships, attachments, crawl_log, open_conns, fetch,
                   lc, clock>>

\* lines 96-101: SELECT * FROM persons WHERE person_id = %s; fetchone()
GetPersonRet(tbl, person_id) ==
    LET hits == SelectSeq(tbl, LAMBDA r : r.person_id = person_id) IN
    IF hits = <<>>
    THEN err("not_found", [person_id |-> person_id])
    ELSE ok(hits[1])

\* lines 92-101: no test of person_id comes before the connection
GetPerson(person_id) ==
    /\ last' = Call("get_person", <<person_id>>, GetPersonRet(persons, person_id),
                    TRUE, 1)
    /\ UNCHANGED <<events, persons, relationships, attachments, crawl_log, next_id,
                   open_conns, fetch, lc, clock>>

\* the rows of persons after an UPDATE ... SET ... WHERE person_id = %s, where
\* set[i] is row i with the SET clause applied
UpdatePerson(person_id, set) ==
    [i \in DOMAIN persons |->
        IF persons[i].person_id = person_id THEN set[i] ELSE persons[i]]

\* lines 588-605: research_notes is replaced by `notes or None`
SetPersonStatus(person_id, status, notes) ==
    /\ IF person_id = NoId
       THEN /\ last' = Call("set_person_status", <<person_id, status, notes>>,
                            err("missing_person_id", NoDetails), FALSE, 0)
            /\ UNCHANGED persons
       ELSE IF status = ""
       THEN /\ last' = Call("set_person_status", <<person_id, status, notes>>,
                            err("missing_status", NoDetails), FALSE, 0)
            /\ UNCHANGED persons
       ELSE /\ persons' = UpdatePerson(person_id,
                             [i \in DOMAIN persons |->
                                [persons[i] EXCEPT
                                    !.research_status = Some(status),
                                    !.research_notes = OrNoneText(notes)]])
            /\ last' = Call("set_person_status", <<person_id, status, notes>>,
                            ok([person_id |-> person_id, status |-> status]), TRUE, 1)
    /\ UNCHANGED <<events, relationships, attachments, crawl_log, next_id, open_conns,
                   fetch, lc, clock>>

\* lines 786-788: f"\n[Possible duplicate noted] {notes}", or "" without notes
ExtraNote(notes) ==
    IF notes = <<>> THEN <<>> ELSE <<"\n[Possible duplicate noted] ">> \o notes

\* line 795: COALESCE(research_notes, '') || %s
ReplaceNotes(research_notes, extra_note) == Some(extra_note)
AppendNotes(research_notes, extra_note) ==
    Some((IF research_notes = Null THEN <<>> ELSE research_notes[1]) \o extra_note)

\* lines 774-801
SetPossibleDuplicateOf(person_id, duplicate_of, notes) ==
    /\ IF person_id = NoId \/ duplicate_of = NoId
       THEN /\ last' = Call("set_possible_duplicate_of",
                            <<person_id, duplicate_of, notes>>,
                            err("missing_person_id", NoDetails), FALSE, 0)
            /\ UNCHANGED persons
       ELSE /\ \A i \in DOMAIN persons :
                  (persons[i].person_id = person_id /\ persons[i].research_notes # Null)
                     => Len(persons[i].research_notes[1]) + Len(ExtraNote(notes))
                           <= MaxNoteLen
            /\ persons' = UpdatePerson(person_id,
                             [i \in DOMAIN persons |->
                                [persons[i] EXCEPT
                                    !.possible_duplicate_of = Some(duplicate_of),
                                    !.research_notes =
                                        AppendNotes(persons[i].research_notes,
                                                    ExtraNote(notes))]])
            /\ last' = Call("set_possible_duplicate_of",
                            <<person_id, duplicate_of, notes>>,
                            ok([person_id |-> person_id, duplicate_of |-> duplicate_of]),
                            TRUE, 1)
    /\ UNCHANGED <<events, relationships, attachments, crawl_log, next_id, open_conns,
                   fetch, lc, clock>>

\* the identifiers a caller passes: the empty string, and those in use
IdArgs == {NoId} \cup (1 .. MaxPersons)

NextPersons ==
    \/ \E a \in PersonArgs \cup NamelessArgs : AddPerson(a)
    \/ \E p \in IdArgs : GetPerson(p)

SpecPersons == Init /\ [][NextPersons]_vars

\* the person whose research notes the note tools are tried on
NotedPersonArgs == {PersonArgSeq[1]}

\* the (status, notes) pairs set_person_status is called with
StatusArgs == {<<"", <<>>>>, <<"open", <<>>>>, <<"open", <<"seen">>>>}

\* the identifiers the note tools are called with
NotedIds == {NoId} \cup (1 .. MaxNoted)

NextNotes ==
    \/ \E a \in NotedPersonArgs : Len(persons) < MaxNoted /\ AddPerson(a)
    \/ \E p \in NotedIds, a \in StatusArgs : SetPersonStatus(p, a[1], a[2])
    \/ \E p \in NotedIds, d \in {NoId, 1}, n \in {<<>>, <<"same">>} :
          SetPossibleDuplicateOf(p, d, n)

SpecNotes == Init /\ [][NextNotes]_vars

-----------------------------------------------------------------------------

NextAttach ==
    \/ \E p \in {"p1"}, n \in {"", "f"}, f \in {""} : AddAttachment(p, n, f)
    \/ \E a \in MetadataArgs : AddAttachmentMetadata(a[1], a[2], a[3])
    \/ \E p \in PersonIds \cup {""} : FetchCall(p)
    \/ \E b \in BOOLEAN : FetchMkdir(b)
    \/ \E b \in BOOLEAN : FetchConnect(b)
    \/ \E b \in BOOLEAN : FetchSelect(b)
    \/ \E row \in fetch.todo, resp \in Responses, w \in BOOLEAN, u \in BOOLEAN :
          FetchRow(row, resp, w, u)
    \/ \E b \in BOOLEAN : FetchReturn(b)
    \/ Collect

SpecAttach == Init /\ [][NextAttach]_vars

-----------------------------------------------------------------------------
(* The fetcher's claims *)

\* the row of the attachments table with this identifier
Att(att_id) ==
    attachments[CHOOSE i \in DOMAIN attachments :
                    attachments[i].attachment_id = att_id]

FetchReturned == last.op = FetchOp /\ last.ret.status = "ok"
FetchedFor == last.args[1]
FetchTrace == last.args[2]
FetchAborted == last.args[3]
FetchResults == last.ret.data.results

Got200(t) == ~t.resp.raised /\ t.resp.status = 200
IsSaved(r) == "saved_path" \in DOMAIN r
IsError(r) == "error" \in DOMAIN r

\* the select took every eligible row of the person once, and nothing else
OneEntryPerEligibleRow ==
    /\ Len(FetchResults) = Len(FetchTrace)
    /\ \A i \in DOMAIN FetchTrace :
          /\ FetchResults[i].attachment_id = FetchTrace[i].attachment_id
          /\ Att(FetchTrace[i].attachment_id).person_id = Some(FetchedFor)
          /\ Att(FetchTrace[i].attachment_id).should_fetch
          /\ Att(FetchTrace[i].attachment_id).download_url
                = Some(FetchTrace[i].download_url)
    /\ \A i, j \in DOMAIN FetchTrace :
          FetchTrace[i].attachment_id = FetchTrace[j].attachment_id => i = j
    /\ \A k \in DOMAIN attachments :
          Eligible(attachments[k], FetchedFor) =>
             \E i \in DOMAIN FetchTrace :
                FetchTrace[i].attachment_id = attachments[k].attachment_id

\* a row that failed has an error entry, is not fetched and is eligible again
FailedRowStaysEligible(i) ==
    /\ IsError(FetchResults[i])
    /\ ~IsSaved(FetchResults[i])
    /\ ~Att(FetchTrace[i].attachment_id).fetched
    /\ Eligible(Att(FetchTrace[i].attachment_id), FetchedFor)

\* C1 as stated: after a fetch call that returned, the results hold one
\* entry per eligible row; every row whose download returned 200 has a
\* saved_path entry and is fetched; every row whose download returned
\* another status or raised has an error entry, is not fetched and stays
\* eligible.
C1_AsClaimed ==
    FetchReturned =>
       /\ OneEntryPerEligibleRow
       /\ \A i \in DOMAIN FetchTrace :
             IF Got200(FetchTrace[i])
             THEN /\ IsSaved(FetchResults[i])
                  /\ Att(FetchTrace[i].attachment_id).fetched
             ELSE FailedRowStaysEligible(i)

\* C1 amended: after a fetch call that returned, the results hold one entry
\* per eligible row, in the order the rows were processed; a row whose
\* download returned 200 and whose file write and UPDATE succeeded has a
\* saved_path entry, and is fetched when no UPDATE of the call failed; every
\* other row (download not 200 or raised, file write failed, UPDATE failed)
\* has an error entry, is not fetched and stays eligible; when an UPDATE of
\* the call failed no row of the call is fetched.
C1_PerRowOutcome ==
    FetchReturned =>
       /\ OneEntryPerEligibleRow
       /\ \A i \in DOMAIN FetchTrace :
             IF Got200(FetchTrace[i]) /\ FetchTrace[i].wrote /\ FetchTrace[i].updated
             THEN /\ IsSaved(FetchResults[i])
                  /\ ~IsError(FetchResults[i])
                  /\ FetchResults[i].saved_path = FilePath(FetchTrace[i].attachment_id)
                  /\ Att(FetchTrace[i].attachment_id).fetched = ~FetchAborted
             ELSE FailedRowStaysEligible(i)

\* C1 witness: a call returned with three rows, one 404, one connection
\* error and one saved, and only the saved row is fetched
C1_Witness ==
    /\ FetchReturned
    /\ Len(FetchTrace) = 3
    /\ \E i, j, k \in DOMAIN FetchTrace :
          /\ FetchTrace[i].resp.raised
          /\ ~FetchTrace[j].resp.raised /\ FetchTrace[j].resp.status = 404
          /\ IsSaved(FetchResults[k])
          /\ Att(FetchTrace[k].attachment_id).fetched
          /\ ~Att(FetchTrace[i].attachment_id).fetched
          /\ ~Att(FetchTrace[j].attachment_id).fetched

\* a fetch call that passed validation and is over
FetchOver ==
    /\ last.op = FetchOp
    /\ last.args[1] # ""
    /\ last.ret.status # "running"

\* C2 as stated: a fetch call that passed validation never raises, whatever
\* fails after validation; it returns an ok envelope.
C2_AsClaimed == FetchOver => last.ret.status = "ok"

\* C2 amended: a fetch call that passed validation either returns an ok
\* envelope holding the person_id and one result per processed row, the
\* failed downloads, file writes and UPDATEs among them as error entries,
\* or raises from the directory creation, the connection, the SELECT or the
\* commit; nothing raises from inside the loop.
C2_RaisesOnlyOutsideLoop ==
    FetchOver =>
       \/ /\ last.ret.status = "ok"
          /\ last.ret.data.person_id = FetchedFor
          /\ Len(FetchResults) = Len(FetchTrace)
          /\ \A i \in DOMAIN FetchTrace :
                ~(Got200(FetchTrace[i]) /\ FetchTrace[i].wrote /\ FetchTrace[i].updated)
                   => IsError(FetchResults[i])
       \/ /\ last.ret.status = "raised"
          /\ last.ret.at \in {"mkdir", "connect", "select", "commit"}

\* C2 witness: a call returned ok although a download raised, a file write
\* failed and an UPDATE failed in it
C2_Witness ==
    /\ FetchReturned
    /\ \E i, j, k \in DOMAIN FetchTrace :
          /\ FetchTrace[i].resp.raised
          /\ Got200(FetchTrace[j]) /\ ~FetchTrace[j].wrote
          /\ Got200(FetchTrace[k]) /\ FetchTrace[k].wrote /\ ~FetchTrace[k].updated

\* the fetched flag of stored rows changes only from false to true, only in
\* the step that ends a fetch call, and only for a row the call downloaded
\* with status 200 from the row's own download_url
FetchedOnlyByFetcher ==
    /\ Len(attachments') >= Len(attachments)
    /\ \A i \in DOMAIN attachments :
          /\ attachments'[i].attachment_id = attachments[i].attachment_id
          /\ attachments'[i].should_fetch = attachments[i].should_fetch
          /\ attachments'[i].download_url = attachments[i].download_url
          /\ attachments'[i].fetched # attachments[i].fetched =>
                /\ ~attachments[i].fetched
                /\ fetch.pc = "loop" /\ fetch'.pc = "idle"
                /\ last'.op = FetchOp /\ last'.ret.status = "ok"
                /\ \E t \in DOMAIN last'.args[2] :
                      /\ last'.args[2][t].attachment_id = attachments[i].attachment_id
                      /\ Got200(last'.args[2][t])
                      /\ Some(last'.args[2][t].download_url) = attachments[i].download_url

\* a fetched row has should_fetch set and a download_url
FetchedOnlyIfMarked ==
    \A i \in DOMAIN attachments :
       attachments[i].fetched =>
          attachments[i].should_fetch /\ attachments[i].download_url # Null

\* C3: the fetched flag is changed only by fetch_attachments_for_person and
\* only from false to true; a row with should_fetch = false, or one created
\* by add_attachment (no download_url), is never fetched; a row becomes
\* fetched only in a call that downloaded its own download_url with status
\* 200.
C3_FetchedFlag == [] FetchedOnlyIfMarked /\ [][FetchedOnlyByFetcher]_vars

\* C3 witness: one row is fetched while a should_fetch = false row and an
\* add_attachment row are stored beside it
C3_Witness ==
    \E i, j, k \in DOMAIN attachments :
       /\ attachments[i].fetched
       /\ ~attachments[j].should_fetch /\ attachments[j].download_url # Null
       /\ attachments[k].download_url = Null

\* C7 as stated: once a call is over, by return or by exception, no
\* connection it opened is still open.
C7_AsClaimed ==
    (fetch.pc = "idle" /\ last.ret.status \in {"ok", "error", "raised"})
       => open_conns = 0

-----------------------------------------------------------------------------
(* The person tools' claims *)

\* the last call was made with a required identifying field empty
RequiredFieldEmpty ==
    \/ /\ last.op = "add_person"
       /\ last.args.given_name = <<>>
       /\ last.args.surname = <<>>
    \/ /\ last.op = "get_person"
       /\ last.args[1] = NoId

\* C5 as stated: a call with an empty required identifying field returns an
\* error envelope without opening a connection or executing a statement.
C5_AsClaimed ==
    RequiredFieldEmpty =>
       /\ last.ret.status = "error"
       /\ ~last.conn
       /\ last.stmts = 0

AddPersonReturned == last.op = "add_person" /\ last.ret.status = "ok"

\* the identifiers of the stored persons are pairwise distinct
DistinctPersonIds ==
    \A i, j \in DOMAIN persons :
       persons[i].person_id = persons[j].person_id => i = j

\* C6 as stated: get_person on the identifier add_person just returned gives
\* status ok and a row with that identifier whose fields equal the values
\* passed to add_person, empty strings and 0 included; identifiers of distinct
\* creates are distinct.
C6_AsClaimed ==
    AddPersonReturned =>
       LET a == last.args
           got == GetPersonRet(persons, last.ret.data.person_id)
       IN /\ got.status = "ok"
          /\ got.data.person_id = last.ret.data.person_id
          /\ got.data.given_name = Some(a.given_name)
          /\ got.data.prefix = Some(a.prefix)
          /\ got.data.surname = Some(a.surname)
          /\ got.data.gender = Some(a.gender)
          /\ got.data.birth_year_estimate = Some(a.birth_year_estimate)
          /\ got.data.death_year_estimate = Some(a.death_year_estimate)
          /\ got.data.notes = Some(a.notes)
          /\ got.data.full_name_normalized = Some(a.full_name_normalized)
          /\ got.data.confidence_score = Some(a.confidence_score)
          /\ DistinctPersonIds

\* what a text argument, a character-sequence argument and an integer
\* argument come back as: absent when empty or 0, the value otherwise
BackText(x) == IF x = "" THEN Null ELSE Some(x)
BackChars(x) == IF Len(x) = 0 THEN Null ELSE Some(x)
BackInt(n) == IF n = 0 THEN Null ELSE Some(n)

\* C6 amended: get_person on the identifier add_person just returned gives
\* status ok and a row with that identifier in which every non-empty string
\* and non-zero integer argument comes back as passed, every empty string
\* and 0 comes back absent (null), and confidence_score comes back as passed
\* (0.0 included); identifiers of distinct creates are distinct.
C6_RoundTrip ==
    AddPersonReturned =>
       LET a == last.args
           got == GetPersonRet(persons, last.ret.data.person_id)
       IN /\ got.status = "ok"
          /\ got.data.person_id = last.ret.data.person_id
          /\ got.data.given_name = BackChars(a.given_name)
          /\ got.data.prefix = BackText(a.prefix)
          /\ got.data.surname = BackChars(a.surname)
          /\ got.data.gender = BackText(a.gender)
          /\ got.data.birth_year_estimate = BackInt(a.birth_year_estimate)
          /\ got.data.death_year_estimate = BackInt(a.death_year_estimate)
          /\ got.data.notes = BackText(a.notes)
          /\ got.data.full_name_normalized = BackChars(a.full_name_normalized)
          /\ got.data.confidence_score = Some(a.confidence_score)
          /\ DistinctPersonIds

\* C6 witness: a third person was created with an empty prefix, a death year
\* of 0 and a confidence of 0.0 beside non-empty fields
C6_Witness ==
    /\ AddPersonReturned
    /\ Len(persons) = 3
    /\ last.args.gender = "m"
    /\ last.args.confidence_score = 0
    /\ \E i \in DOMAIN persons : persons[i].prefix = Null

\* s is a prefix of t
IsPrefix(s, t) == Len(s) <= Len(t) /\ SubSeq(t, 1, Len(s)) = s

\* t ends with s
IsSuffix(s, t) == Len(s) <= Len(t) /\ SubSeq(t, Len(t) - Len(s) + 1, Len(t)) = s

\* what a step that is a successful set_possible_duplicate_of call does
DuplicateStep ==
    (last'.op = "set_possible_duplicate_of" /\ last'.ret.status = "ok") =>
       /\ Len(persons') = Len(persons)
       /\ \A i \in DOMAIN persons :
             IF persons[i].person_id = last'.args[1]
             THEN /\ persons'[i].possible_duplicate_of = Some(last'.args[2])
                  /\ persons[i].research_notes # Null =>
                        /\ persons'[i].research_notes # Null
                        /\ IsPrefix(persons[i].research_notes[1],
                                    persons'[i].research_notes[1])
                        /\ IsSuffix(last'.args[3], persons'[i].research_notes[1])
                        /\ last'.args[3] = <<>> =>
                              persons'[i].research_notes = persons[i].research_notes
                        /\ last'.args[3] # <<>> =>
                              Len(persons'[i].research_notes[1])
                                 > Len(persons[i].research_notes[1])
             ELSE persons'[i] = persons[i]

\* C9: set_possible_duplicate_of on a person with research notes keeps them
\* as a prefix of the new research notes, which end with the new note text,
\* sets possible_duplicate_of to duplicate_of, and with empty notes leaves
\* the research notes as they were; no other person changes.
C9_NotesAppended == [][DuplicateStep]_vars

\* C9 witness: a person whose notes were "seen" has them followed by the
\* duplicate note
C9_Witness ==
    /\ last.op = "set_possible_duplicate_of"
    /\ last.ret.status = "ok"
    /\ last.args[3] = <<"same">>
    /\ \E i \in DOMAIN persons :
          /\ persons[i].person_id = last.args[1]
          /\ persons[i].research_notes =
                Some(<<"seen", "\n[Possible duplicate noted] ", "same">>)

-----------------------------------------------------------------------------
(* find_persons_simple *)

MinLimit == 1
MaxLimit == 100

\* line 115: limit = max(1, min(limit, 100))
ClampNoFloor(limit) == IF limit < MaxLimit THEN limit ELSE MaxLimit
Clamp(limit) ==
    LET lo == IF limit < MaxLimit THEN limit ELSE MaxLimit
    IN IF lo > MinLimit THEN lo ELSE MinLimit

\* line 113: `not name_query.strip()`
IsBlank(q) == \A i \in DOMAIN q : q[i] = " "

\* the lower-case form ILIKE compares
Lower(c) == IF c = "A" THEN "a" ELSE c
LowerText(t) == [i \in DOMAIN t |-> Lower(t[i])]

\* t ILIKE '%q%' for a query without wildcard characters
Contains(t, q) ==
    \E i \in 0 .. (Len(t) - Len(q)) : SubSeq(t, i + 1, i + Len(q)) = q
ILike(column, q) ==
    column # Null /\ Contains(LowerText(column[1]), LowerText(q))

\* line 123: the WHERE clause
Matches(r, q) ==
    \/ ILike(r.surname, q)
    \/ ILike(r.given_name, q)
    \/ ILike(r.full_name_normalized, q)

\* the order of characters under byte-wise collation
Code(c) ==
    CASE c = " " -> 32 [] c = "A" -> 65 [] c = "a" -> 97
      [] c = "b" -> 98 [] c = "n" -> 110

\* -1, 0 or 1 as s sorts before, with or after t
RECURSIVE CmpText(_, _)
CmpText(s, t) ==
    IF s = <<>> /\ t = <<>> THEN 0
    ELSE IF s = <<>> THEN -1
    ELSE IF t = <<>> THEN 1
    ELSE IF Code(s[1]) < Code(t[1]) THEN -1
    ELSE IF Code(s[1]) > Code(t[1]) THEN 1
    ELSE CmpText(Tail(s), Tail(t))

\* one ORDER BY key with NULLS LAST
CmpColumn(x, y) ==
    IF x = Null /\ y = Null THEN 0
    ELSE IF x = Null THEN 1
    ELSE IF y = Null THEN -1
    ELSE CmpText(x[1], y[1])

\* line 124: ORDER BY surname NULLS LAST, given_name NULLS LAST, on the
\* pairs <<surname, given_name>>
SortKey(r) == <<r.surname, r.given_name>>
CmpKey(k1, k2) ==
    IF CmpColumn(k1[1], k2[1]) # 0
    THEN CmpColumn(k1[1], k2[1])
    ELSE CmpColumn(k1[2], k2[2])

\* the sort: the rows of the least key, then those of the next key, and so
\* on; rows with the same key stay in table order
RECURSIVE RowsByKey(_, _)
RowsByKey(rows, keys) ==
    IF keys = {} THEN <<>>
    ELSE LET least == CHOOSE k \in keys : \A k2 \in keys : CmpKey(k, k2) <= 0
         IN SelectSeq(rows, LAMBDA r : SortKey(r) = least)
               \o RowsByKey(rows, keys \ {least})

SortRows(rows) == RowsByKey(rows, {SortKey(rows[i]) : i \in DOMAIN rows})

\* LIMIT n
Limit(rows, n) == SubSeq(rows, 1, IF n < Len(rows) THEN n ELSE Len(rows))

\* lines 119-129: the SELECT with LIMIT n
FindRows(tbl, q, n) ==
    Limit(SortRows(SelectSeq(tbl, LAMBDA r : Matches(r, q))), n)

\* lines 105-130
FindPersonsSimple(name_query, limit) ==
    /\ IF IsBlank(name_query)
       THEN last' = Call("find_persons_simple", <<name_query, limit>>,
                         err("missing_query", [message |-> "name_query is required"]),
                         FALSE, 0)
       ELSE LET rows == FindRows(persons, name_query, Clamp(limit))
            IN last' = Call("find_persons_simple", <<name_query, limit>>,
                            ok([count |-> Len(rows), persons |-> rows]), TRUE, 1)
    /\ UNCHANGED <<events, persons, relationships, attachments, crawl_log, next_id,
                   open_conns, fetch, lc, clock>>

\* the persons table after n add_person calls that go through PersonArgSeq
\* again and again
Populated(n) ==
    [i \in 1 .. n |->
        PersonRow(Uuid4(i), PersonArgSeq[(i % Len(PersonArgSeq)) + 1])]

\* table sizes around the limits the clamp produces
TableSizes == {0, 1, 3, MaxLimit - 1, MaxLimit, MaxLimit + Beyond}

InitFind ==
    /\ \E n \in TableSizes : persons = Populated(n) /\ next_id = n + 1
    /\ events = <<>>
    /\ relationships = <<>>
    /\ attachments = <<>>
    /\ crawl_log = <<>>
    /\ open_conns = 0
    /\ fetch = Idle
    /\ lc = [w \in {1, 2} |-> Null]
    /\ clock = 0
    /\ last = Call("none", <<>>, ok(<<>>), FALSE, 0)

Queries == {<<" ">>, <<"a">>, <<"A", "b">>, <<"n">>}
Limits == {-1, 0, 1, 2, MaxLimit - 1, MaxLimit, MaxLimit + 1, 1000}

NextFind == \E q \in Queries, l \in Limits : FindPersonsSimple(q, l)

SpecFind == InitFind /\ [][NextFind]_vars

\* C8: for a non-blank query the call returns ok; with limit <= 0 the rows
\* are those of LIMIT 1, with limit >= 100 those of LIMIT 100; count is the
\* number of rows returned and never exceeds max(1, min(limit, 100)); and
\* clamping a clamped limit changes nothing.
C8_ClampedLimit ==
    (last.op = "find_persons_simple" /\ ~IsBlank(last.args[1])) =>
       LET q == last.args[1]
           limit == last.args[2]
           effective == IF limit < 1 THEN 1 ELSE IF limit > 100 THEN 100 ELSE limit
       IN /\ last.ret.status = "ok"
          /\ limit <= 0 => last.ret.data.persons = FindRows(persons, q, 1)
          /\ limit >= 100 => last.ret.data.persons = FindRows(persons, q, 100)
          /\ last.ret.data.count = Len(last.ret.data.persons)
          /\ last.ret.data.count <= effective
          /\ Clamp(limit) = effective
          /\ Clamp(Clamp(limit)) = Clamp(limit)

\* C8 witness: more than 100 persons match, the call asked for 1000 and got
\* 100
C8_Witness ==
    /\ last.op = "find_persons_simple"
    /\ last.args[2] = 1000
    /\ last.ret.status = "ok"
    /\ last.ret.data.count = 100
    /\ Len(SelectSeq(persons, LAMBDA r : Matches(r, last.args[1]))) > 100

\* C8 witness of the lower end: several persons match, the call asked for 0
\* and got one
C8_WitnessLow ==
    /\ last.op = "find_persons_simple"
    /\ last.args[2] = 0
    /\ last.ret.status = "ok"
    /\ last.ret.data.count = 1
    /\ Len(SelectSeq(persons, LAMBDA r : Matches(r, last.args[1]))) > 1

-----------------------------------------------------------------------------
(* Relationships *)

\* lines 716-748: the person identifiers are not looked up in persons
AddRelationship(person_id_a, person_id_b, relation_type) ==
    /\ IF person_id_a = "" \/ person_id_b = ""
       THEN /\ last' = Call("add_relationship",
                            <<person_id_a, person_id_b, relation_type>>,
                            err("missing_person_ids", NoDetails), FALSE, 0)
            /\ UNCHANGED <<relationships, next_id>>
       ELSE IF relation_type = ""
       THEN /\ last' = Call("add_relationship",
                            <<person_id_a, person_id_b, relation_type>>,
                            err("missing_relation_type", NoDetails), FALSE, 0)
            /\ UNCHANGED <<relationships, next_id>>
       ELSE /\ Len(relationships) < MaxRel
            /\ LET rid == Uuid4(next_id) IN
               /\ relationships' = Append(relationships,
                     [relationship_id |-> rid,
                      person_id_a |-> person_id_a,
                      person_id_b |-> person_id_b,
                      relation_type |-> relation_type,
                      confidence_score |-> 1,
                      notes |-> Null])
               /\ last' = Call("add_relationship",
                               <<person_id_a, person_id_b, relation_type>>,
                               ok([relationship_id |-> rid]), TRUE, 1)
            /\ next_id' = next_id + 1
    /\ UNCHANGED <<events, persons, attachments, crawl_log, open_conns, fetch, lc, clock>>

\* line 764: WHERE person_id_a = %s OR person_id_b = %s
InvolvesAsAOnly(r, person_id) == r.person_id_a = person_id
Involves(r, person_id) ==
    r.person_id_a = person_id \/ r.person_id_b = person_id

\* lines 752-770
GetPersonRelationships(person_id) ==
    /\ IF person_id = ""
       THEN last' = Call("get_person_relationships", <<person_id>>,
                         err("missing_person_id", NoDetails), FALSE, 0)
       ELSE LET rows == SelectSeq(relationships, LAMBDA r : Involves(r, person_id))
            IN last' = Call("get_person_relationships", <<person_id>>,
                            ok([count |-> Len(rows), relationships |-> rows]),
                            TRUE, 1)
    /\ UNCHANGED <<events, persons, relationships, attachments, crawl_log, next_id,
                   open_conns, fetch, lc, clock>>

RelPersons == {"", "p1", "p2", "p3"}

NextRel ==
    \/ \E a \in RelPersons, b \in RelPersons, t \in {"", "spouse"} :
          AddRelationship(a, b, t)
    \/ \E p \in RelPersons : GetPersonRelationships(p)

SpecRel == Init /\ [][NextRel]_vars

\* the elements of a sequence
Range(seq) == {seq[i] : i \in DOMAIN seq}

\* C10: get_person_relationships(X) returns the stored relationships that
\* have X as person_id_a or as person_id_b, each once, and no other; count is
\* the number of rows returned.
C10_SymmetricLookup ==
    (last.op = "get_person_relationships" /\ last.args[1] # "") =>
       LET x == last.args[1]
           rows == last.ret.data.relationships
       IN /\ last.ret.status = "ok"
          /\ \A i \in DOMAIN relationships :
                (relationships[i].person_id_a = x \/ relationships[i].person_id_b = x)
                   <=> relationships[i] \in Range(rows)
          /\ Range(rows) \subseteq Range(relationships)
          /\ Cardinality(Range(rows)) = Len(rows)
          /\ last.ret.data.count = Len(rows)

\* C10 witness: X is person_id_b of one returned row and person_id_a of
\* another, and a stored row without X is not returned
C10_Witness ==
    /\ last.op = "get_person_relationships"
    /\ last.ret.status = "ok"
    /\ last.ret.data.count = 2
    /\ Len(relationships) = 3
    /\ \E r \in Range(last.ret.data.relationships) :
          r.person_id_b = last.args[1] /\ r.person_id_a # last.args[1]
    /\ \E r \in Range(last.ret.data.relationships) :
          r.person_id_a = last.args[1] /\ r.person_id_b # last.args[1]

-----------------------------------------------------------------------------
(* The crawl log *)

CrawlArgs ==
    {[url |-> "http://x", http_status |-> 200, content_hash |-> "h1", notes |-> "n"],
     [url |-> "http://x", http_status |-> 404, content_hash |-> "", notes |-> ""],
     [url |-> "http://y", http_status |-> 200, content_hash |-> "", notes |-> ""],
     [url |-> "", http_status |-> 200, content_hash |-> "", notes |-> ""]}

\* lines 526-534 on a table without the row: the INSERT; first_seen,
\* last_seen and processed take the schema's defaults
NewCrawlRow(crawl_id, a, now, at) ==
    [crawl_id |-> crawl_id,
     url |-> a.url,
     http_status |-> a.http_status,
     content_hash |-> OrNone(a.content_hash),
     notes |-> OrNone(a.notes),
     first_seen |-> now,
     last_seen |-> now,
     processed |-> DefaultFlag,
     committed_at |-> at]

\* lines 529-533: ON CONFLICT (url) DO UPDATE SET ...
ReplacedCrawlRow(r, a, now, at) == NewCrawlRow(r.crawl_id, a, now, at)
UpdatedCrawlRow(r, a, now, at) ==
    [r EXCEPT !.last_seen = now,
              !.http_status = a.http_status,
              !.content_hash = OrNone(a.content_hash),
              !.notes = OrNone(a.notes),
              !.committed_at = at]

\* lines 526-536: the statement as one atomic insert-or-update
InsertAlways(tbl, crawl_id, a, now, at) ==
    Append(tbl, NewCrawlRow(crawl_id, a, now, at))
Upsert(tbl, crawl_id, a, now, at) ==
    IF \E i \in DOMAIN tbl : tbl[i].url = a.url
    THEN [i \in DOMAIN tbl |->
             IF tbl[i].url = a.url THEN UpdatedCrawlRow(tbl[i], a, now, at)
             ELSE tbl[i]]
    ELSE Append(tbl, NewCrawlRow(crawl_id, a, now, at))

\* lines 524-525 and 535: validation, then the connection; the transaction
\* starts, and NOW() is its start time
LogCrawlBegin(w, a) ==
    /\ lc[w] = Null
    /\ IF a.url = ""
       THEN /\ last' = Call("log_crawl", a, err("missing_url", NoDetails), FALSE, 0)
            /\ UNCHANGED <<lc, clock>>
       ELSE /\ clock < MaxClock
            /\ lc' = [lc EXCEPT ![w] = Some([args |-> a, now |-> clock])]
            /\ clock' = clock + 1
            /\ UNCHANGED last
    /\ UNCHANGED <<events, persons, relationships, attachments, crawl_log, next_id,
                   open_conns, fetch>>

\* lines 536-537: the statement runs, the transaction commits, the call
\* returns; a statement that met another transaction's row for the same URL
\* has waited for that transaction to end
LogCrawlExec(w) ==
    /\ lc[w] # Null
    /\ LET c == lc[w][1] IN
       /\ crawl_log' = Upsert(crawl_log, next_id, c.args, c.now, clock)
       /\ last' = Call("log_crawl", c.args, ok([url |-> c.args.url]), TRUE, 1)
    /\ next_id' = next_id + 1
    /\ lc' = [lc EXCEPT ![w] = Null]
    /\ UNCHANGED <<events, persons, relationships, attachments, open_conns, fetch, clock>>

\* lines 560-569
MarkCrawlProcessed(url) ==
    /\ IF url = ""
       THEN /\ last' = Call("mark_crawl_processed", <<url>>,
                            err("missing_url", NoDetails), FALSE, 0)
            /\ UNCHANGED crawl_log
       ELSE /\ crawl_log' = [i \in DOMAIN crawl_log |->
                                IF crawl_log[i].url = url
                                THEN [crawl_log[i] EXCEPT !.processed = TRUE]
                                ELSE crawl_log[i]]
            /\ last' = Call("mark_crawl_processed", <<url>>,
                            ok([url |-> url, processed |-> TRUE]), TRUE, 1)
    /\ UNCHANGED <<events, persons, relationships, attachments, next_id, open_conns,
                   fetch, lc, clock>>

NextCrawl ==
    \/ \E w \in DOMAIN lc, a \in CrawlArgs : LogCrawlBegin(w, a)
    \/ \E w \in DOMAIN lc : LogCrawlExec(w)
    \/ \E u \in {"", "http://x", "http://y"} : MarkCrawlProcessed(u)

SpecCrawl == Init /\ [][NextCrawl]_vars

\* no two rows of the crawl log have the same URL
OneRowPerUrl ==
    \A i, j \in DOMAIN crawl_log : crawl_log[i].url = crawl_log[j].url => i = j

\* the rows of a table with this URL
RowsOf(tbl, url) == {i \in DOMAIN tbl : tbl[i].url = url}

\* what a step in which worker w's log_crawl statement runs leaves behind:
\* one row for the URL, with the call's http_status, content_hash and notes;
\* and when the call began after the row's last writer returned, a
\* last_seen that is not earlier than the row's
LogCrawlStep(w) ==
    (lc[w] # Null /\ lc'[w] = Null) =>
       LET c == lc[w][1]
           url == c.args.url
       IN /\ Cardinality(RowsOf(crawl_log', url)) = 1
          /\ \A i \in RowsOf(crawl_log', url) :
                /\ crawl_log'[i].http_status = c.args.http_status
                /\ crawl_log'[i].content_hash =
                      (IF c.args.content_hash = "" THEN Null
                       ELSE Some(c.args.content_hash))
                /\ crawl_log'[i].notes =
                      (IF c.args.notes = "" THEN Null ELSE Some(c.args.notes))
                /\ \A j \in RowsOf(crawl_log, url) :
                      c.now >= crawl_log[j].committed_at =>
                         /\ crawl_log'[i].last_seen >= crawl_log[j].last_seen
                         /\ crawl_log'[i].last_seen = c.now
          /\ \A j \in DOMAIN crawl_log :
                crawl_log[j].url # url => crawl_log'[j] = crawl_log[j]
          /\ Len(crawl_log') =
                Len(crawl_log) + (IF RowsOf(crawl_log, url) = {} THEN 1 ELSE 0)

\* C4: the crawl log never holds two rows with one URL, also when log_crawl
\* calls overlap; a log_crawl call leaves exactly one row for its URL, with
\* its http_status, content_hash and notes, and a second call made after the
\* first returned leaves a last_seen not earlier than the first call's.
C4_OneRowPerUrl ==
    [] OneRowPerUrl /\ [][\A w \in DOMAIN lc : LogCrawlStep(w)]_vars

\* C4 witness: a second log_crawl for a URL, begun after the first returned,
\* has replaced the first call's status and moved last_seen on, in a log of
\* one row
C4_Witness ==
    /\ last.op = "log_crawl"
    /\ last.ret.status = "ok"
    /\ Len(crawl_log) = 1
    /\ crawl_log[1].url = last.args.url
    /\ crawl_log[1].http_status = 404
    /\ crawl_log[1].content_hash = Null
    /\ crawl_log[1].last_seen > crawl_log[1].first_seen
    /\ crawl_log[1].first_seen < crawl_log[1].committed_at
    /\ \A w \in DOMAIN lc : lc[w] = Null

-----------------------------------------------------------------------------
(* Events *)

\* what callers pass to add_event: the dates cover an absent and a present
\* value at each of year, month and day, and equal dates
EventArgSeq ==
    << [person_id |-> "p1", event_type |-> "birth", date_literal |-> "",
        year |-> 1900, month |-> 0, day |-> 0, place |-> "", country |-> "",
        source_id |-> "", notes |-> ""],
       [person_id |-> "p1", event_type |-> "death", date_literal |-> "?",
        year |-> 0, month |-> 0, day |-> 0, place |-> "", country |-> "",
        source_id |-> "", notes |-> ""],
       [person_id |-> "p1", event_type |-> "census", date_literal |-> "",
        year |-> 1850, month |-> 0, day |-> 0, place |-> "x", country |-> "",
        source_id |-> "", notes |-> ""],
       [person_id |-> "p1", event_type |-> "census", date_literal |-> "",
        year |-> 1850, month |-> 2, day |-> 0, place |-> "", country |-> "",
        source_id |-> "", notes |-> ""],
       [person_id |-> "p1", event_type |-> "census", date_literal |-> "",
        year |-> 1850, month |-> 2, day |-> 1, place |-> "", country |-> "",
        source_id |-> "", notes |-> ""],
       [person_id |-> "p1", event_type |-> "census", date_literal |-> "",
        year |-> 1850, month |-> 1, day |-> 2, place |-> "", country |-> "",
        source_id |-> "", notes |-> ""],
       [person_id |-> "p1", event_type |-> "census", date_literal |-> "",
        year |-> 0, month |-> 1, day |-> 0, place |-> "", country |-> "",
        source_id |-> "", notes |-> "n"],
       [person_id |-> "p2", event_type |-> "birth", date_literal |-> "",
        year |-> 1850, month |-> 0, day |-> 0, place |-> "", country |-> "",
        source_id |-> "", notes |-> ""],
       [person_id |-> "", event_type |-> "birth", date_literal |-> "",
        year |-> 1850, month |-> 0, day |-> 0, place |-> "", country |-> "",
        source_id |-> "", notes |-> ""],
       [person_id |-> "p1", event_type |-> "", date_literal |-> "",
        year |-> 1850, month |-> 0, day |-> 0, place |-> "", country |-> "",
        source_id |-> "", notes |-> ""] >>

EventArgs == {EventArgSeq[i] : i \in DOMAIN EventArgSeq}

\* lines 226-246: the row the INSERT stores, `x or None` on every optional
\* column
EventRow(eid, a) ==
    [event_id     |-> eid,
     person_id    |-> a.person_id,
     event_type   |-> a.event_type,
     date_literal |-> OrNone(a.date_literal),
     year         |-> OrNoneInt(a.year),
     month        |-> OrNoneInt(a.month),
     day          |-> OrNoneInt(a.day),
     place        |-> OrNone(a.place),
     country      |-> OrNone(a.country),
     source_id    |-> OrNone(a.source_id),
     notes        |-> OrNone(a.notes)]

\* lines 206-249
AddEvent(a) ==
    /\ IF a.person_id = ""
       THEN /\ last' = Call("add_event", <<a>>, err("missing_person_id", NoDetails),
                            FALSE, 0)
            /\ UNCHANGED <<events, next_id>>
       ELSE IF a.event_type = ""
       THEN /\ last' = Call("add_event", <<a>>, err("missing_event_type", NoDetails),
                            FALSE, 0)
            /\ UNCHANGED <<events, next_id>>
       ELSE /\ Len(events) < MaxEvents
            /\ LET eid == Uuid4(next_id) IN
                 /\ events' = Append(events, EventRow(eid, a))
                 /\ next_id' = next_id + 1
                 /\ last' = Call("add_event", <<a>>, ok([event_id |-> eid]), TRUE, 1)
    /\ UNCHANGED <<persons, relationships, attachments, crawl_log, open_conns,
                   fetch, lc, clock>>

\* line 265, one column of ORDER BY ... NULLS LAST: -1, 0 or 1 as x sorts
\* before, with or after y
CmpIntNullsFirst(x, y) ==
    IF x = y THEN 0
    ELSE IF x = Null THEN -1
    ELSE IF y = Null THEN 1
    ELSE IF x[1] < y[1] THEN -1 ELSE 1

CmpIntNullsLast(x, y) ==
    IF x = y THEN 0
    ELSE IF x = Null THEN 1
    ELSE IF y = Null THEN -1
    ELSE IF x[1] < y[1] THEN -1 ELSE 1

\* line 265: ORDER BY year, month, day
CmpEvent(r, s) ==
    IF CmpIntNullsLast(r.year, s.year) # 0 THEN CmpIntNullsLast(r.year, s.year)
    ELSE IF CmpIntNullsLast(r.month, s.month) # 0
    THEN CmpIntNullsLast(r.month, s.month)
    ELSE CmpIntNullsLast(r.day, s.day)

\* lines 260-267: the orders in which the SELECT can return the rows of
\* person_id; rows that compare equal come in any order
EventListings(person_id) ==
    LET idx == {i \in DOMAIN events : events[i].person_id = person_id}
        n   == Cardinality(idx)
    IN { [k \in 1..n |-> events[f[k]]] :
           f \in { g \in [1..n -> idx] :
                     /\ \A j, k \in 1..n : j # k => g[j] # g[k]
                     /\ \A k \in 1..n : k < n =>
                            CmpEvent(events[g[k]], events[g[k + 1]]) <= 0 } }

\* lines 253-270
ListPersonEvents(person_id) ==
    /\ IF person_id = ""
       THEN last' = Call("list_person_events", <<person_id>>,
                         err("missing_person_id", NoDetails), FALSE, 0)
       ELSE \E rows \in EventListings(person_id) :
               last' = Call("list_person_events", <<person_id>>,
                            ok([count |-> Len(rows), events |-> rows]), TRUE, 1)
    /\ UNCHANGED <<persons, events, relationships, attachments, crawl_log, next_id,
                   open_conns, fetch, lc, clock>>

NextEvents ==
    \/ \E a \in EventArgs : AddEvent(a)
    \/ \E p \in {"", "p1", "p2"} : ListPersonEvents(p)

SpecEvents == Init /\ [][NextEvents]_vars

ListReturned ==
    /\ last.op = "list_person_events"
    /\ last.ret.status = "ok"

\* r comes strictly before s: at the first of year, month, day where they
\* differ, r has a value and s has none or a greater one
ComesBefore(r, s) ==
    LET first == IF r.year # s.year THEN <<r.year, s.year>>
                 ELSE IF r.month # s.month THEN <<r.month, s.month>>
                 ELSE <<r.day, s.day>>
    IN /\ first[1] # first[2]
       /\ first[1] # Null
       /\ first[2] # Null => first[1][1] < first[2][1]

\* C11: a list_person_events call that returned ok holds every event of the
\* person exactly once and no other row, count is their number, and no row
\* of the list comes after a row that is strictly later by year, then
\* month, then day, an absent value being later than every present one;
\* this whatever the order in which the events were added
C11_EventsOrdered ==
    ListReturned =>
       LET rows == last.ret.data.events
           p    == last.args[1]
       IN /\ {rows[k] : k \in DOMAIN rows}
                = {events[i] : i \in {j \in DOMAIN events : events[j].person_id = p}}
          /\ Cardinality({rows[k] : k \in DOMAIN rows}) = Len(rows)
          /\ last.ret.data.count = Len(rows)
          /\ \A j, k \in DOMAIN rows : j < k => ~ComesBefore(rows[k], rows[j])

\* events added with years 1900, absent, 1850 were listed as 1850, 1900, absent
C11_Witness ==
    /\ ListReturned
    /\ last.args[1] = "p1"
    /\ Len(events) = 3
    /\ events[1].year = Some(1900)
    /\ events[2].year = Null
    /\ events[3].year = Some(1850)
    /\ \A i \in 1..3 : events[i].person_id = "p1"
    /\ Len(last.ret.data.events) = 3
    /\ last.ret.data.events[1].year = Some(1850)
    /\ last.ret.data.events[2].year = Some(1900)
    /\ last.ret.data.events[3].year = Null

\* listed rows that differ at month and at day only, the absent value last
C11_WitnessLevels ==
    /\ ListReturned
    /\ Len(last.ret.data.events) = 3
    /\ \A k \in 1..3 : last.ret.data.events[k].year = Some(1850)
    /\ last.ret.data.events[1].month = Some(2)
    /\ last.ret.data.events[1].day = Some(1)
    /\ last.ret.data.events[2].month = Some(2)
    /\ last.ret.data.events[2].day = Null
    /\ last.ret.data.events[3].month = Null

-----------------------------------------------------------------------------
(* Unprocessed crawls *)

MinCrawlLimit == 1
MaxCrawlLimit == 200

\* line 545: limit = max(1, min(limit, 200))
ClampCrawls(limit) ==
    LET capped == IF limit < MaxCrawlLimit THEN limit ELSE MaxCrawlLimit
    IN IF capped > MinCrawlLimit THEN capped ELSE MinCrawlLimit

\* lines 546-552: the results the SELECT can give: the first n unprocessed
\* rows by first_seen, rows with one first_seen in any order
UnprocessedListings(n) ==
    LET idx == {i \in DOMAIN crawl_log : crawl_log[i].processed = FALSE}
        m   == Cardinality(idx)
        k   == IF m < n THEN m ELSE n
    IN { [j \in 1..k |-> crawl_log[f[j]]] :
           f \in { g \in [1..m -> idx] :
                     /\ \A i, j \in 1..m : i # j => g[i] # g[j]
                     /\ \A j \in 1..m : j < m =>
                           crawl_log[g[j]].first_seen
                              <= crawl_log[g[j + 1]].first_seen } }

\* lines 541-556
GetUnprocessedCrawls(limit) ==
    /\ \E rows \in UnprocessedListings(ClampCrawls(limit)) :
          last' = Call("get_unprocessed_crawls", <<limit>>,
                       ok([count |-> Len(rows), crawls |-> rows]), TRUE, 1)
    /\ UNCHANGED <<persons, events, relationships, attachments, crawl_log, next_id,
                   open_conns, fetch, lc, clock>>

CrawlLimits == {0, 1, 20}

NextProcessed ==
    \/ NextCrawl
    \/ \E l \in CrawlLimits : GetUnprocessedCrawls(l)

SpecProcessed == Init /\ [][NextProcessed]_vars

\* the URLs of the rows of a sequence of crawl log rows
UrlsOf(rows) == {rows[i].url : i \in DOMAIN rows}

\* a processed row is there after the step, processed and with its
\* first_seen; a row that is there after the step and was not there before
\* is not processed
ProcessedKept ==
    /\ \A i \in DOMAIN crawl_log :
          crawl_log[i].processed =>
             /\ i \in DOMAIN crawl_log'
             /\ crawl_log'[i].url = crawl_log[i].url
             /\ crawl_log'[i].processed
             /\ crawl_log'[i].first_seen = crawl_log[i].first_seen
    /\ \A i \in DOMAIN crawl_log' :
          crawl_log'[i].url \notin UrlsOf(crawl_log) => ~crawl_log'[i].processed

\* worker w's log_crawl statement, run on a processed row, gives the row the
\* call's http_status, content_hash and notes and the call's time as
\* last_seen
ProcessedRowUpdated(w) ==
    (lc[w] # Null /\ lc'[w] = Null) =>
       LET c == lc[w][1] IN
       \A i \in RowsOf(crawl_log, c.args.url) :
          crawl_log[i].processed =>
             /\ crawl_log'[i].http_status = c.args.http_status
             /\ crawl_log'[i].content_hash =
                   (IF c.args.content_hash = "" THEN Null
                    ELSE Some(c.args.content_hash))
             /\ crawl_log'[i].notes =
                   (IF c.args.notes = "" THEN Null ELSE Some(c.args.notes))
             /\ crawl_log'[i].last_seen = c.now

\* a mark_crawl_processed call that returned ok has left every row of its
\* URL processed and has added or removed no row
MarkedStep ==
    (last'.op = "mark_crawl_processed" /\ last'.ret.status = "ok") =>
       /\ Len(crawl_log') = Len(crawl_log)
       /\ \A i \in DOMAIN crawl_log : crawl_log'[i].url = crawl_log[i].url
       /\ \A i \in RowsOf(crawl_log', last'.args[1]) : crawl_log'[i].processed

\* the result of the get_unprocessed_crawls call just made holds no URL of
\* a processed row
ProcessedUnlisted ==
    last.op = "get_unprocessed_crawls" =>
       \A i \in DOMAIN crawl_log :
          crawl_log[i].processed =>
             crawl_log[i].url \notin UrlsOf(last.ret.data.crawls)

\* C12: a row that mark_crawl_processed has marked stays processed through
\* every later operation: a later log_crawl with its URL gives it the call's
\* http_status, content_hash, notes and last_seen and leaves processed and
\* first_seen as they were, get_unprocessed_crawls never returns its URL
\* again, and mark_crawl_processed on a URL without a row creates no row
C12_StaysProcessed ==
    /\ [] ProcessedUnlisted
    /\ [][/\ ProcessedKept
          /\ MarkedStep
          /\ \A w \in DOMAIN lc : ProcessedRowUpdated(w)]_vars

\* a log_crawl call has just updated a row that was processed before it:
\* the row has the call's status, a later last_seen, and is still processed
C12_Witness ==
    /\ last.op = "log_crawl"
    /\ last.ret.status = "ok"
    /\ \E i \in DOMAIN crawl_log :
          /\ crawl_log[i].url = last.args.url
          /\ crawl_log[i].processed
          /\ crawl_log[i].http_status = 404
          /\ crawl_log[i].http_status = last.args.http_status
          /\ crawl_log[i].last_seen > crawl_log[i].first_seen

\* get_unprocessed_crawls has returned the unprocessed row and left out the
\* processed row that a later log_crawl updated
C12_WitnessUnlisted ==
    /\ last.op = "get_unprocessed_crawls"
    /\ Len(crawl_log) = 2
    /\ \E i \in DOMAIN crawl_log :
          /\ crawl_log[i].processed
          /\ crawl_log[i].last_seen > crawl_log[i].first_seen
    /\ \E i \in DOMAIN crawl_log : ~crawl_log[i].processed
    /\ Len(last.ret.data.crawls) = 1

\* mark_crawl_processed has returned ok for a URL that has no row
C12_WitnessNoRow ==
    /\ last.op = "mark_crawl_processed"
    /\ last.ret.status = "ok"
    /\ crawl_log # <<>>
    /\ RowsOf(crawl_log, last.args[1]) = {}

-----------------------------------------------------------------------------
(* Repeated fetches *)

\* after a fetch call that returned, every row it reported with saved_path
\* is fetched, has the path <content dir>/<attachment_id>.bin, the path the
\* entry gives, and is not eligible for a later call
SavedStaysSaved ==
    FetchReturned =>
       \A i \in DOMAIN FetchResults :
          IsSaved(FetchResults[i]) =>
             LET a == Att(FetchResults[i].attachment_id) IN
             /\ a.fetched
             /\ a.file_path = Some(FilePath(a.attachment_id))
             /\ FetchResults[i].saved_path = FilePath(a.attachment_id)
             /\ ~Eligible(a, FetchedFor)

\* the rows a call in progress has selected were not fetched when it began
SelectedNotFetched ==
    \A row \in fetch.todo : ~Att(row.attachment_id).fetched

\* a fetched row stays fetched, with its path
FetchedKept ==
    \A i \in DOMAIN attachments :
       attachments[i].fetched =>
          /\ attachments'[i].fetched
          /\ attachments'[i].file_path = attachments[i].file_path

\* a call that returns having selected no row gives empty results and
\* changes no row
NothingToFetch ==
    (fetch.pc = "loop" /\ fetch'.pc = "idle" /\ fetch.trace = <<>>
        /\ last'.ret.status = "ok") =>
       /\ last'.ret.data.results = <<>>
       /\ attachments' = attachments

\* C13 as stated: over fetch calls made one after the other, a row reported
\* with saved_path is fetched and has file_path <content dir>/<id>.bin once
\* the call has returned, and no later call selects or downloads it; a call
\* made when no row is eligible returns empty results and changes no row
C13_AsClaimed ==
    /\ [] (SavedStaysSaved /\ SelectedNotFetched)
    /\ [][FetchedKept /\ NothingToFetch]_vars

====
